---- MODULE Spec2Model ----
(***************************************************************************)
(* Model of pdm_venv/backends.py: the Backend base class, its three        *)
(* strategies (virtualenv, venv, conda) and the BACKENDS registry.         *)
(*                                                                         *)
(* Strings are sequences of tokens (a token is one letter of the model's   *)
(* alphabet: "/", ".", a digit, "python=", a word).  An Optional[str] is a *)
(* sequence of length at most one: <<>> is None, <<s>> is the string s.    *)
(* A Path is the sequence of its segments; every path is absolute.         *)
(***************************************************************************)
EXTENDS Integers, Sequences, FiniteSets, TLC

\* ------------------------------------------------------------------ bounds
\* number of operations (ident reads and create calls) on one Backend
MaxCalls == 2
\* length of the extra-args tuples handed to create
MaxArgs == 2

\* ------------------------------------------------------------ Python values
NoneV == <<>>
Some(s) == <<s>>

\* truth value of an Optional[str]: None and "" are falsy
Truthy(o) == o # NoneV /\ o[1] # <<>>

\* str.startswith
startswith(s, p) == Len(s) >= Len(p) /\ SubSeq(s, 1, Len(p)) = p

Digits == <<"0", "1", "2", "3", "4", "5", "6", "7", "8", "9">>

\* str(int) for a non-negative int, as the f-string of python_ver formats it
RECURSIVE IntStr(_)
IntStr(n) == IF n < 10 THEN <<Digits[n + 1]>>
             ELSE IntStr(n \div 10) \o <<Digits[(n % 10) + 1]>>

\* ------------------------------------------------------------------- pathlib
\* Path(s): the segments of s between "/" separators, empty segments dropped
RECURSIVE PathOf(_)
PathOf(s) ==
    IF s = <<>> THEN <<>>
    ELSE IF Head(s) = "/" THEN PathOf(Tail(s))
    ELSE LET rest == PathOf(Tail(s))
         IN IF Len(s) > 1 /\ s[2] # "/"
            THEN <<(<<Head(s)>> \o Head(rest))>> \o Tail(rest)
            ELSE <<(<<Head(s)>>)>> \o rest

\* str(path)
RECURSIVE PathStr(_)
PathStr(p) == IF p = <<>> THEN <<>> ELSE <<"/">> \o Head(p) \o PathStr(Tail(p))

\* path / s : an absolute s replaces the path, as pathlib does
Div(p, s) == IF s # <<>> /\ Head(s) = "/" THEN PathOf(s) ELSE p \o PathOf(s)

IsPrefix(p, q) == Len(p) <= Len(q) /\ SubSeq(q, 1, Len(p)) = p

\* the ancestors of p, p included, the filesystem root excluded
Ancestors(p) == {SubSeq(p, 1, i) : i \in 1..Len(p)}

\* Path.exists / Path.is_dir on a filesystem f (a function from the
\* existing paths to the stamp of what wrote them)
exists(f, p) == p \in DOMAIN f

\* the filesystem f restricted to the paths of D
Restrict(f, D) == [q \in D |-> f[q]]

\* Path.mkdir(exist_ok=True, parents=True)
mkdir(f, p) ==
    [q \in DOMAIN f \cup Ancestors(p) |-> IF q \in DOMAIN f THEN f[q] ELSE 0]

\* ---------------------------------------------------- the host's Project
\* sys.executable, the interpreter running pdm
sys_executable == <<"/", "usr", "/", "bin", "/", "python", "3", ".", "1", "2">>

Py39 == [executable |-> <<"/", "usr", "/", "bin", "/", "python", "3", ".", "9">>,
         major |-> 3, minor |-> 9, identifier |-> <<"cpython", "-", "3", ".", "9">>]
Py39Opt == [executable |-> <<"/", "opt", "/", "python", "3", ".", "9">>,
            major |-> 3, minor |-> 9, identifier |-> <<"cpython", "-", "3", ".", "9", "-", "opt">>]
Py312 == [executable |-> sys_executable,
          major |-> 3, minor |-> 12, identifier |-> <<"cpython", "-", "3", ".", "1", "2">>]

Hint39 == <<"3", ".", "9">>
Hint311 == <<"3", ".", "1", "1">>

\* the interpreter hints a Backend is constructed with
Hints == {NoneV, Some(<<>>), Some(Hint39), Some(Hint311)}

\* project.find_interpreters(hint): the candidates, best first; no 3.11 is
\* installed
find_interpreters(hint) ==
    IF hint = Hint39 THEN <<Py39, Py39Opt>> ELSE <<>>

\* project.root and project.config["venv.location"]
project_root == <<(<<"proj">>)>>
venv_location == <<"/", "envs">>

\* get_venv_prefix(project): the configured name prefix
get_venv_prefix == <<"proj", "-">>

\* the registry's keys
BACKENDS == {"virtualenv", "venv", "conda"}

\* ------------------------------------------------------------------- state
VARIABLES
    kind,            \* the class of the Backend instance, a key of BACKENDS
    python,          \* self.python, the Optional[str] hint
    project_python,  \* self.project.python, the project's default interpreter
    cache,           \* the instance's cached _resolved_interpreter: <<>> or <<info>>
    queries,         \* number of calls of project.find_interpreters
    fs,              \* the filesystem: existing path |-> stamp of its writer
    gen,             \* number of child processes spawned so far
    calls,           \* number of operations started on the instance
    pc,              \* position inside create, "idle" between operations
    call,            \* the arguments of the running create
    location,        \* create's local variable, <<>> until computed
    notice,          \* the "Cleaning existing target directory" echo of the last create
    cmd,             \* the command handed to subprocess.check_call
    result           \* outcome of the last finished operation

vars == <<kind, python, project_python, cache, queries, fs, gen, calls, pc,
          call, location, notice, cmd, result>>

\* ------------------------------------------------------------------ errors
NoError == <<>>
VirtualenvCreateError(msg) == <<[type |-> "VirtualenvCreateError", msg |-> msg]>>
PdmUsageError(msg) == <<[type |-> "PdmUsageError", msg |-> msg]>>

CantFind == VirtualenvCreateError("Can't find python interpreter")
NotEmpty == VirtualenvCreateError("The location is not empty")
CalledProcessError == VirtualenvCreateError("CalledProcessError")
PythonPin == PdmUsageError("Cannot use python= in conda creation arguments")

\* ---------------------------------------------------------------- Backend
\* Every method is an operator from the instance's cache c (and the
\* filesystem f where it touches it) to a record of what it did: the error
\* it raised (NoError if none), its value, the cache and filesystem it
\* leaves, and the number of find_interpreters calls it made.

\* resolved_interpreter without the cache look-up: every access resolves anew
resolved_interpreter_uncached(c) ==
    IF ~Truthy(python)
    THEN [err |-> NoError, value |-> project_python,
          cache |-> <<project_python>>, queried |-> 0]
    ELSE LET found == find_interpreters(python[1])
         IN IF found # <<>>
            THEN [err |-> NoError, value |-> Head(found),
                  cache |-> <<Head(found)>>, queried |-> 1]
            ELSE [err |-> CantFind, value |-> project_python,
                  cache |-> c, queried |-> 1]

\* cached_property: the value is stored in the instance only when the
\* getter returns; a getter that raises stores nothing
resolved_interpreter(c) ==
    IF c # <<>>
    THEN [err |-> NoError, value |-> c[1], cache |-> c, queried |-> 0]
    ELSE IF ~Truthy(python)
    THEN [err |-> NoError, value |-> project_python,
          cache |-> <<project_python>>, queried |-> 0]
    ELSE LET found == find_interpreters(python[1])
         IN IF found # <<>>
            THEN [err |-> NoError, value |-> Head(found),
                  cache |-> <<Head(found)>>, queried |-> 1]
            ELSE [err |-> CantFind, value |-> project_python,
                  cache |-> c, queried |-> 1]

\* Backend.ident
Backend_ident(c) ==
    LET r == resolved_interpreter(c)
    IN [err |-> r.err,
        value |-> IF r.err = NoError THEN r.value.identifier ELSE <<>>,
        cache |-> r.cache, queried |-> r.queried]

\* CondaBackend.ident without its override of the base property
CondaBackend_ident_inherited(c) == Backend_ident(c)

\* CondaBackend.ident
CondaBackend_ident(c) ==
    IF Truthy(python)
    THEN [err |-> NoError, value |-> python[1], cache |-> c, queried |-> 0]
    ELSE Backend_ident(c)

\* self.ident, dispatched on the class of the instance
ident(c) == IF kind = "conda" THEN CondaBackend_ident(c) ELSE Backend_ident(c)

\* rmtree that removes the directory entry but not what is below it
rmtree_top_only(f, p) == Restrict(f, DOMAIN f \ {p})

\* shutil.rmtree
rmtree(f, p) == Restrict(f, {q \in DOMAIN f : ~IsPrefix(p, q)})

\* _ensure_clean without the force test: an existing location is always removed
ensure_clean_ignores_force(f, loc, force) ==
    IF ~exists(f, loc)
    THEN [err |-> NoError, fs |-> f, notice |-> NoneV]
    ELSE [err |-> NoError, fs |-> rmtree(f, loc), notice |-> Some(loc)]

\* _ensure_clean that announces the clean-up but leaves the tree in place
ensure_clean_keeps(f, loc, force) ==
    IF ~exists(f, loc)
    THEN [err |-> NoError, fs |-> f, notice |-> NoneV]
    ELSE IF ~force
    THEN [err |-> NotEmpty, fs |-> f, notice |-> NoneV]
    ELSE [err |-> NoError, fs |-> f, notice |-> Some(loc)]

\* Backend._ensure_clean
ensure_clean(f, loc, force) ==
    IF ~exists(f, loc)
    THEN [err |-> NoError, fs |-> f, notice |-> NoneV]
    ELSE IF ~force
    THEN [err |-> NotEmpty, fs |-> f, notice |-> NoneV]
    ELSE [err |-> NoError, fs |-> rmtree(f, loc), notice |-> Some(loc)]

\* get_location that names the environment by ident even when a name is given
get_location_ident_only(name, f, c) ==
    LET venv_parent == PathOf(venv_location)
        f1 == IF ~exists(f, venv_parent) THEN mkdir(f, venv_parent) ELSE f
        i == ident(c)
    IN [err |-> i.err,
        value |-> IF i.err = NoError
                  THEN Div(venv_parent, get_venv_prefix \o i.value)
                  ELSE <<>>,
        fs |-> f1, cache |-> i.cache, queried |-> i.queried]

\* Backend.get_location
get_location(name, f, c) ==
    LET venv_parent == PathOf(venv_location)
        f1 == IF ~exists(f, venv_parent) THEN mkdir(f, venv_parent) ELSE f
        i == IF Truthy(name)
             THEN [err |-> NoError, value |-> name[1], cache |-> c, queried |-> 0]
             ELSE ident(c)
    IN [err |-> i.err,
        value |-> IF i.err = NoError
                  THEN Div(venv_parent, get_venv_prefix \o i.value)
                  ELSE <<>>,
        fs |-> f1, cache |-> i.cache, queried |-> i.queried]

\* the pin test applied to the first extra arg only
any_python_pin_first(args) == args # <<>> /\ startswith(args[1], <<"python=">>)

\* any(arg.startswith("python=") for arg in args)
any_python_pin(args) == \E k \in 1..Len(args) : startswith(args[k], <<"python=">>)

\* the virtualenv command with the extra args placed before the -p flag
VirtualenvBackend_perform_create_args_first(loc, args, c) ==
    LET r == resolved_interpreter(c)
    IN [err |-> r.err,
        cmd |-> IF r.err = NoError
                THEN <<sys_executable, <<"-m">>, <<"virtualenv">>, PathStr(loc)>>
                     \o args \o <<(<<"-p">>), r.value.executable>>
                ELSE <<>>,
        cache |-> r.cache, queried |-> r.queried]

\* VirtualenvBackend.perform_create, up to the call of subprocess_call
VirtualenvBackend_perform_create(loc, args, c) ==
    LET r == resolved_interpreter(c)
    IN [err |-> r.err,
        cmd |-> IF r.err = NoError
                THEN <<sys_executable, <<"-m">>, <<"virtualenv">>, PathStr(loc)>>
                     \o <<(<<"-p">>), r.value.executable>> \o args
                ELSE <<>>,
        cache |-> r.cache, queried |-> r.queried]

\* VenvBackend without its own hook: the one inherited from VirtualenvBackend
VenvBackend_perform_create_inherited(loc, args, c) ==
    VirtualenvBackend_perform_create(loc, args, c)

\* VenvBackend.perform_create, up to the call of subprocess_call
VenvBackend_perform_create(loc, args, c) ==
    LET r == resolved_interpreter(c)
    IN [err |-> r.err,
        cmd |-> IF r.err = NoError
                THEN <<r.value.executable, <<"-m">>, <<"venv">>, PathStr(loc)>>
                     \o args
                ELSE <<>>,
        cache |-> r.cache, queried |-> r.queried]

\* the conda hook formatting the version without the dot between major
\* and minor
CondaBackend_perform_create_no_dot(loc, args, c) ==
    LET r == IF Truthy(python)
             THEN [err |-> NoError, value |-> project_python, cache |-> c,
                   queried |-> 0]
             ELSE resolved_interpreter(c)
        python_ver == IF Truthy(python) THEN python[1]
                      ELSE IntStr(r.value.major) \o IntStr(r.value.minor)
    IN IF r.err # NoError
       THEN [err |-> r.err, cmd |-> <<>>, cache |-> r.cache, queried |-> r.queried]
       ELSE IF any_python_pin(args)
       THEN [err |-> PythonPin, cmd |-> <<>>, cache |-> r.cache,
             queried |-> r.queried]
       ELSE [err |-> NoError,
             cmd |-> <<(<<"conda">>), <<"create">>, <<"--yes">>, <<"--prefix">>,
                       PathStr(loc), <<"pip">>, <<"python=">> \o python_ver>>
                     \o args,
             cache |-> r.cache, queried |-> r.queried]

\* CondaBackend.perform_create, up to the call of subprocess_call
CondaBackend_perform_create(loc, args, c) ==
    LET r == IF Truthy(python)
             THEN [err |-> NoError, value |-> project_python, cache |-> c,
                   queried |-> 0]
             ELSE resolved_interpreter(c)
        python_ver == IF Truthy(python) THEN python[1]
                      ELSE IntStr(r.value.major) \o <<".">> \o IntStr(r.value.minor)
    IN IF r.err # NoError
       THEN [err |-> r.err, cmd |-> <<>>, cache |-> r.cache, queried |-> r.queried]
       ELSE IF any_python_pin(args)
       THEN [err |-> PythonPin, cmd |-> <<>>, cache |-> r.cache,
             queried |-> r.queried]
       ELSE [err |-> NoError,
             cmd |-> <<(<<"conda">>), <<"create">>, <<"--yes">>, <<"--prefix">>,
                       PathStr(loc), <<"pip">>, <<"python=">> \o python_ver>>
                     \o args,
             cache |-> r.cache, queried |-> r.queried]

\* self.perform_create, dispatched on the class of the instance
perform_create(loc, args, c) ==
    IF kind = "virtualenv" THEN VirtualenvBackend_perform_create(loc, args, c)
    ELSE IF kind = "venv" THEN VenvBackend_perform_create(loc, args, c)
    ELSE CondaBackend_perform_create(loc, args, c)

\* Backend.subprocess_call: a non-zero exit of the child becomes an error
subprocess_call(exitcode) == IF exitcode # 0 THEN CalledProcessError ELSE NoError

\* the directory the child process was told to create, read from its
\* command line
ChildTarget(c) == PathOf(IF c[1] = <<"conda">> THEN c[5] ELSE c[4])

\* what the child leaves on disk: a tree at its target, stamped g
ChildWrite(f, p, g) ==
    [q \in DOMAIN f \cup Ancestors(p) |->
        IF q = p THEN g ELSE IF q \in DOMAIN f THEN f[q] ELSE 0]

\* ------------------------------------------------------------------ inputs
\* the names create is called with
Names == {NoneV, Some(<<>>), Some(<<"foo">>)}

\* the raw command-line fragments of the extra args
ArgFragments == {<<"--copies">>, <<"python=", "3", ".", "8">>, <<"x", "python=", "3">>}
\* the extra args: up to MaxArgs distinct fragments, in any order
ArgTuples ==
    {a \in UNION {[1..n -> ArgFragments] : n \in 0..MaxArgs} :
        \A i, j \in 1..Len(a) : i # j => a[i] # a[j]}

\* names of environments that may be on disk before the Backend is built
EnvNames == {<<"foo">>, Hint39, Hint311, Py39.identifier, Py312.identifier}

EnvsDir == PathOf(venv_location)
InProjectVenv == Div(project_root, <<".venv">>)
NamedEnvs == {Div(EnvsDir, get_venv_prefix \o n) : n \in EnvNames}

\* the directory trees that may be on disk before the Backend is built
InitTrees == {{InProjectVenv, Div(InProjectVenv, <<"pyvenv", ".", "cfg">>)},
              {EnvsDir, Div(EnvsDir, get_venv_prefix \o <<"foo">>)},
              {EnvsDir, InProjectVenv} \cup NamedEnvs
                  \cup {Div(e, <<"pyvenv", ".", "cfg">>) : e \in NamedEnvs}}

NoCall == [name |-> NoneV, args |-> <<>>, force |-> FALSE, in_project |-> FALSE]
NoResult == [op |-> "none", err |-> NoError, value |-> <<>>]

\* ------------------------------------------------------------------ actions
\* Backend.__init__ on some filesystem
Init ==
    /\ kind \in BACKENDS
    /\ python \in Hints
    /\ project_python \in {Py312, Py39Opt}
    /\ cache = <<>>
    /\ queries = 0
    /\ \E T \in InitTrees : fs = [q \in T \cup {project_root} |-> 0]
    /\ gen = 0
    /\ calls = 0
    /\ pc = "idle"
    /\ call = NoCall
    /\ location = <<>>
    /\ notice = NoneV
    /\ cmd = <<>>
    /\ result = NoResult

\* create returns value or raises err: its locals are gone
Return(err, value) ==
    /\ pc' = "idle"
    /\ call' = NoCall
    /\ location' = <<>>
    /\ cmd' = <<>>
    /\ result' = [op |-> "create", err |-> err, value |-> value]

\* a read of backend.ident
IdentRead ==
    /\ pc = "idle"
    /\ calls < MaxCalls
    /\ LET r == ident(cache)
       IN /\ cache' = r.cache
          /\ queries' = queries + r.queried
          /\ result' = [op |-> "ident", err |-> r.err, value |-> r.value]
    /\ calls' = calls + 1
    /\ UNCHANGED <<kind, python, project_python, fs, gen, pc, call, location,
                   notice, cmd>>

\* backend.create(name, args, force, in_project) is entered
Create(name, args, force, in_project) ==
    /\ pc = "idle"
    /\ calls < MaxCalls
    /\ call' = [name |-> name, args |-> args, force |-> force,
                in_project |-> in_project]
    /\ pc' = "location"
    /\ calls' = calls + 1
    /\ result' = NoResult
    /\ notice' = NoneV
    /\ UNCHANGED <<kind, python, project_python, cache, queries, fs, gen,
                   location, cmd>>

\* create, lines 77-80: the location is computed
Locate ==
    /\ pc = "location"
    /\ IF call.in_project
       THEN /\ location' = Div(project_root, <<".venv">>)
            /\ pc' = "ensure_clean"
            /\ UNCHANGED <<cache, queries, fs, call, notice, cmd, result>>
       ELSE LET r == get_location(call.name, fs, cache)
            IN /\ cache' = r.cache
               /\ queries' = queries + r.queried
               /\ fs' = r.fs
               /\ notice' = notice
               /\ IF r.err # NoError
                  THEN Return(r.err, <<>>)
                  ELSE /\ location' = r.value
                       /\ pc' = "ensure_clean"
                       /\ UNCHANGED <<call, cmd, result>>
    /\ UNCHANGED <<kind, python, project_python, gen, calls>>

\* create, line 81
EnsureClean ==
    /\ pc = "ensure_clean"
    /\ LET r == ensure_clean(fs, location, call.force)
       IN /\ fs' = r.fs
          /\ notice' = r.notice
          /\ IF r.err # NoError
             THEN Return(r.err, <<>>)
             ELSE /\ pc' = "perform_create"
                  /\ UNCHANGED <<call, location, cmd, result>>
    /\ UNCHANGED <<kind, python, project_python, cache, queries, gen, calls>>

\* create, line 82: the hook builds the command and hands it to
\* subprocess.check_call, which spawns the child
PerformCreate ==
    /\ pc = "perform_create"
    /\ LET r == perform_create(location, call.args, cache)
       IN /\ cache' = r.cache
          /\ queries' = queries + r.queried
          /\ IF r.err # NoError
             THEN /\ Return(r.err, <<>>)
                  /\ gen' = gen
             ELSE /\ cmd' = r.cmd
                  /\ gen' = gen + 1
                  /\ pc' = "subprocess_call"
                  /\ UNCHANGED <<call, location, result>>
    /\ UNCHANGED <<kind, python, project_python, fs, calls, notice>>

\* the child exits; a failing child may leave partial files behind;
\* create returns the location (line 83) or raises
SubprocessCall ==
    /\ pc = "subprocess_call"
    /\ \E exitcode \in {0, 1}, wrote \in BOOLEAN :
          /\ exitcode = 0 => wrote
          /\ fs' = IF wrote THEN ChildWrite(fs, ChildTarget(cmd), gen) ELSE fs
          /\ Return(subprocess_call(exitcode),
                    IF exitcode = 0 THEN location ELSE <<>>)
    /\ UNCHANGED <<kind, python, project_python, cache, queries, gen, calls,
                   notice>>

Next ==
    \/ IdentRead
    \/ \E name \in Names, args \in ArgTuples, force \in BOOLEAN,
          in_project \in BOOLEAN : Create(name, args, force, in_project)
    \/ Locate
    \/ EnsureClean
    \/ PerformCreate
    \/ SubprocessCall

Spec == Init /\ [][Next]_vars

\* ------------------------------------------------------------ properties
\* nothing exists at p or below it
Gone(f, p) == \A q \in DOMAIN f : ~IsPrefix(p, q)

\* the step spawns a child process
Spawns == gen' # gen

\* the step ends a create call with an error
Fails == pc # "idle" /\ pc' = "idle" /\ result'.err # NoError

\* the interpreter the instance is meant to provision
Target == IF Truthy(python) THEN Py39 ELSE project_python

\* some extra arg begins with the python= token
HasPin(args) == \E k \in 1..Len(args) : args[k][1] = "python="

\* C1: create on an existing location without force fails with the
\* location-not-empty error, leaves the filesystem as it was and neither
\* runs the creation hook nor spawns a process.
C1_ExistingWithoutForce ==
    [][ /\ (pc = "location" /\ pc' = "ensure_clean" /\ ~call.force
            /\ exists(fs', location')) => fs' = fs
        /\ (pc = "ensure_clean" /\ ~call.force /\ exists(fs, location)) =>
              /\ pc' = "idle"
              /\ result' = [op |-> "create", err |-> NotEmpty, value |-> <<>>]
              /\ fs' = fs
              /\ ~Spawns
              /\ cmd' = <<>> ]_vars

C1_Witness ==
    /\ pc = "idle"
    /\ result.op = "create"
    /\ result.err = NotEmpty
    /\ exists(fs, InProjectVenv)

\* C2: with force on an existing location, the clean-up step removes the
\* location and everything below it without spawning anything, and a child
\* process is only ever spawned after the clean-up step, at a moment when
\* nothing exists at the location.
C2_DeleteBeforeSpawn ==
    [][ /\ (pc = "ensure_clean" /\ call.force /\ exists(fs, location)) =>
              /\ Gone(fs', location)
              /\ pc' = "perform_create"
              /\ notice' = Some(location)
              /\ ~Spawns
        /\ Spawns => (pc = "perform_create" /\ Gone(fs, location)
                      /\ Gone(fs', location) /\ pc' = "subprocess_call") ]_vars

C2_Witness ==
    /\ pc = "subprocess_call"
    /\ call.force
    /\ notice = Some(location)

\* C3 as stated: find_interpreters is called at most once in the lifetime
\* of a Backend instance.
C3_AtMostOneQuery == queries <= 1

\* C3 amended: only a successful resolution is memoized.  Once the
\* instance holds a resolved interpreter, or when it has no hint, no step
\* calls find_interpreters; a step calls it at most once, and a call that
\* finds nothing ends the operation with the interpreter-not-found error
\* and leaves nothing cached.
C3_SuccessMemoized ==
    [][ /\ (cache # <<>> \/ ~Truthy(python)) => queries' = queries
        /\ queries' # queries =>
              /\ queries' = queries + 1
              /\ \/ cache' = <<Py39>> /\ python = Some(Hint39)
                 \/ cache' = <<>> /\ result'.err = CantFind /\ pc' = "idle"
        /\ cache # <<>> => cache' = cache ]_vars

C3_Witness ==
    /\ calls >= 2
    /\ pc = "idle"
    /\ queries = 1
    /\ cache = <<Py39>>
    /\ result.err = NoError

\* C4 as stated: a conda create whose args hold a python= fragment always
\* fails with the usage error and spawns nothing.
C4_PinAlwaysUsageError ==
    [][ (kind = "conda" /\ pc # "idle" /\ HasPin(call.args)) =>
            /\ ~Spawns
            /\ pc' = "idle" => result'.err = PythonPin ]_vars

\* C4 amended: a conda create whose args hold a python= fragment never
\* spawns a process and always fails; it fails with the usage error, raised
\* by the creation hook, except that an existing location without force
\* fails earlier with the location-not-empty error.
C4_PinNeverSpawns ==
    [][ (kind = "conda" /\ pc # "idle" /\ HasPin(call.args)) =>
            /\ ~Spawns
            /\ pc' # "subprocess_call"
            /\ pc' = "idle" =>
                  \/ pc = "perform_create" /\ result'.err = PythonPin
                  \/ /\ pc = "ensure_clean" /\ result'.err = NotEmpty
                     /\ exists(fs, location) /\ ~call.force ]_vars

C4_Witness ==
    /\ kind = "conda"
    /\ pc = "idle"
    /\ result.op = "create"
    /\ result.err = PythonPin
    /\ gen = 0

\* C5: the conda ident is the raw hint when a non-empty hint was given,
\* read without resolving anything, and the identifier of the project's
\* interpreter otherwise; a conda Backend never calls find_interpreters.
C5_CondaIdent ==
    kind = "conda" =>
        /\ queries = 0
        /\ result.op = "ident" =>
              /\ result.err = NoError
              /\ Truthy(python) => (result.value = python[1] /\ cache = <<>>)
              /\ ~Truthy(python) => result.value = project_python.identifier

C5_Witness ==
    /\ kind = "conda"
    /\ python = Some(<<"3", ".", "1", "1">>)
    /\ result.op = "ident"
    /\ result.value = <<"3", ".", "1", "1">>

C7_VirtualenvCommand ==
    (kind = "virtualenv" /\ pc = "subprocess_call") =>
        /\ cmd = <<sys_executable, <<"-m">>, <<"virtualenv">>, PathStr(location),
                   <<"-p">>, Target.executable>> \o call.args
        /\ cache = <<Target>>

C7_Witness ==
    /\ kind = "virtualenv"
    /\ pc = "subprocess_call"
    /\ cmd[6] = <<"/", "usr", "/", "bin", "/", "python", "3", ".", "9">>
    /\ cmd[1] # cmd[6]
    /\ Len(call.args) = 2
    /\ call.args[1] # call.args[2]

\* the version the conda command pins: the raw hint, else major.minor of
\* the project's interpreter
PinnedVersion ==
    IF Truthy(python) THEN python[1]
    ELSE IF project_python = Py312 THEN <<"3", ".", "1", "2">>
    ELSE <<"3", ".", "9">>

\* C8: the conda command is "conda create --yes --prefix <location> pip
\* python=<version>" followed by the extra args in order; it is only built
\* when no extra arg starts with python=, so it holds exactly one pin.
C8_CondaCommand ==
    (kind = "conda" /\ pc = "subprocess_call") =>
        /\ ~HasPin(call.args)
        /\ cmd = <<(<<"conda">>), <<"create">>, <<"--yes">>, <<"--prefix">>,
                   PathStr(location), <<"pip">>, <<"python=">> \o PinnedVersion>>
                 \o call.args
        /\ Cardinality({k \in 1..Len(cmd) : cmd[k][1] = "python="}) = 1

C8_Witness ==
    /\ kind = "conda"
    /\ pc = "subprocess_call"
    /\ ~Truthy(python)
    /\ cmd[7] = <<"python=", "3", ".", "1", "2">>
    /\ Len(call.args) = 2
    /\ call.args[1] # call.args[2]

\* the identity that names the default location
ExpectedIdent ==
    IF kind = "conda" /\ Truthy(python) THEN python[1] ELSE Target.identifier

\* the location create is meant to use
ExpectedLocation ==
    IF call.in_project THEN <<(<<"proj">>), <<".venv">>>>
    ELSE <<(<<"envs">>),
           <<"proj", "-">> \o (IF Truthy(call.name) THEN call.name[1]
                               ELSE ExpectedIdent)>>

\* C9: the location is <root>/.venv when in_project, else
\* <parent>/<prefix><name or ident> with the parent created; the clean-up
\* step, the command line and the value returned all use that location.
C9_Location ==
    /\ [](pc \in {"ensure_clean", "perform_create", "subprocess_call"} =>
            /\ location = ExpectedLocation
            /\ ~call.in_project => exists(fs, <<(<<"envs">>)>>))
    /\ [](pc = "subprocess_call" => ChildTarget(cmd) = location)
    /\ [][ /\ (pc = "ensure_clean" /\ call.force) => Gone(fs', location)
           /\ (pc = "subprocess_call" /\ result'.err = NoError) =>
                 (result'.value = location /\ exists(fs', location)) ]_vars

C9_Witness ==
    /\ kind = "venv"
    /\ python = Some(<<"3", ".", "9">>)
    /\ pc = "idle"
    /\ result.op = "create"
    /\ result.err = NoError
    /\ result.value = <<(<<"envs">>), <<"proj", "-", "cpython", "-", "3", ".", "9">>>>
    /\ fs[result.value] = gen

\* C10: when a create that has cleaned an existing location then fails in
\* the creation hook, it returns no location, and what stood at the
\* location stays deleted: without a child process nothing is there, and
\* after a failed child only files that child wrote can be there.
C10_FailedForcedRecreation ==
    [][ (pc \in {"perform_create", "subprocess_call"} /\ notice # NoneV /\ Fails) =>
            /\ result'.value = <<>>
            /\ Gone(fs, location)
            /\ pc = "perform_create" => Gone(fs', location)
            /\ \A q \in DOMAIN fs' : IsPrefix(location, q) =>
                  (fs'[q] = gen /\ \A o \in DOMAIN fs : fs[o] < gen) ]_vars

C10_Witness ==
    /\ pc = "idle"
    /\ result.op = "create"
    /\ result.err = CalledProcessError
    /\ notice # NoneV
    /\ ~exists(fs, notice[1])

====
